---------------------------- MODULE Spec2Model ----------------------------
(***************************************************************************)
(* A model of the trace_generator repository:                              *)
(*   - TraceGenerator (src/trace_generator/__init__.py): the constructor   *)
(*     with its connection validation, generate_traces and the manual      *)
(*     single-span constructor _create_trace;                              *)
(*   - generate_random_topology and find_longest_path (src/trace_utils.py).*)
(*                                                                         *)
(* Numbers.  Python floats are modelled as exact rationals on a grid: a    *)
(* randomization level is rl/RDen, a uniform draw of random.random() is    *)
(* k/UDen with k in 0..UDen-1 (so always in [0,1)).  A datetime or a       *)
(* timedelta is <<seconds, microseconds>> with 0 <= microseconds < 10^6,   *)
(* which is how Python normalises them; timedelta(seconds=x) rounds x to   *)
(* the nearest microsecond, ties to even.                                  *)
(***************************************************************************)
EXTENDS Integers, Sequences, FiniteSets, TLC

VARIABLES
    gen,        \* the TraceGenerator object, or NoGen before/without construction
    pc,         \* "new" | "failed" | "ready" | "loop" | "children" | "done": the
                \* model follows one construction ("failed" when it raised) and
                \* one call on the generator, "done" is the state after it
    call,       \* the last call and its arguments, <<"none">> before any
    err,        \* the exception the last call raised, "" when it raised none
    ret,        \* what the last call returned: <<"none">>, <<"traces", list>>, <<"trace", span>>
    traces,     \* generate_traces: the list being built
    base_time,  \* generate_traces: base_time
    remaining,  \* generate_traces: iterations of range(num_traces) still to run
    group,      \* generate_traces: the group of the current iteration
    trace_id,   \* generate_traces: the root span's id in the current iteration
    current_time, \* generate_traces: the running cursor of the current iteration
    conn_idx,   \* generate_traces: position in proxy_service.connections (1-based)
    topo        \* generate_random_topology: the state of one call (see TopoInit)

vars == <<gen, pc, call, err, ret, traces, base_time, remaining, group, trace_id,
          current_time, conn_idx, topo>>

---------------------------------------------------------------------------
(* Bounds of the model *)

MaxGroups == 2      \* num_groups arguments are 0..MaxGroups
RDen == 2           \* randomization levels are multiples of 1/RDen
UDen == 20          \* uniform draws are k/UDen, k in 0..UDen-1
MaxTraces == 2      \* num_traces arguments are 0..MaxTraces
MaxDecls == 2       \* enumerated declaration lists have at most MaxDecls entries
MaxConns == 1       \* ... each with at most MaxConns connections

---------------------------------------------------------------------------
(* Values *)

ServiceTypes == {"proxy", "web", "database"}
StatusValues == {"success", "error"}

None == <<>>                    \* Python's None, as a trace id
NoGen == [services |-> <<>>, randomization_level |-> -1, num_groups |-> 0]
NoTime == <<0, 0>>

\* datetime / timedelta arithmetic on <<seconds, microseconds>>
DtAdd(a, b) ==
    LET us == a[2] + b[2]
    IN  <<a[1] + b[1] + (us \div 1000000), us % 1000000>>

DtLeq(a, b) == a[1] < b[1] \/ (a[1] = b[1] /\ a[2] <= b[2])

\* round(n / d) to an integer, ties to even (d > 0)
RoundHalfEven(n, d) ==
    LET q == n \div d
        r == n % d
    IN  IF 2 * r > d \/ (2 * r = d /\ q % 2 = 1) THEN q + 1 ELSE q

\* timedelta(seconds = num/den), normalised: the fraction of a second is
\* rounded to microseconds (the division is done in two steps of three
\* digits to stay within the integers of the checker)
Timedelta(num, den) ==
    LET whole == num \div den
        frac  == num % den
        ms    == (frac * 1000) \div den
        rest  == (frac * 1000) % den
        us    == ms * 1000 + RoundHalfEven(rest * 1000, den)
    IN  IF us = 1000000 THEN <<whole + 1, 0>> ELSE <<whole, us>>

\* the readings datetime.now() may give
NowReadings == {<<100, 0>>, <<100, 999999>>}

\* The draws one span consumes, as the model follows them: rnd is
\* random.randint(1000, 9999) and now is datetime.now() of _generate_trace_id
\* (or of _create_trace), uo/UDen, ud/UDen and us/UDen are the values of
\* random.random() for the start offset, the duration and the status, mi
\* selects the draws of _generate_metadata.  Two combinations: every draw at
\* its least value, every draw at its greatest.
SpanDraws ==
    { [rnd |-> 1000, now |-> <<100, 0>>, uo |-> 0, ud |-> 0, us |-> 0, mi |-> 1],
      [rnd |-> 9999, now |-> <<100, 999999>>, uo |-> UDen - 1, ud |-> UDen - 1,
       us |-> UDen - 1, mi |-> 2] }

---------------------------------------------------------------------------
(* ServiceConfig and the constructor *)

\* ServiceConfig(...): pydantic accepts the declaration iff service_type
\* matches ^(proxy|web|database)$
ServiceConfigOK(d) == d.service_type \in ServiceTypes

ServiceConfig(n, t, c) == [name |-> n, service_type |-> t, connections |-> c]

Names(services) == {services[i].name : i \in 1 .. Len(services)}

\* {s.name: s for s in services}: a dict keeps the position of a key's first
\* insertion and the value of its last one.  The dict is the sequence of its
\* values in key order.
ServicesDict(services) ==
    LET firstIdx == {i \in 1 .. Len(services) :
                        \A j \in 1 .. (i - 1) : services[j].name # services[i].name}
        lastOf(i) == CHOOSE j \in 1 .. Len(services) :
                        /\ services[j].name = services[i].name
                        /\ \A k \in (j + 1) .. Len(services) :
                              services[k].name # services[i].name
        RECURSIVE build(_)
        build(i) == IF i > Len(services) THEN <<>>
                    ELSE IF i \in firstIdx
                         THEN <<services[lastOf(i)]>> \o build(i + 1)
                         ELSE build(i + 1)
    IN  build(1)

\* _validate_connections: TRUE iff no ValueError is raised
ValidateConnections(dict) ==
    \A i \in 1 .. Len(dict) :
        \A c \in 1 .. Len(dict[i].connections) :
            dict[i].connections[c] \in Names(dict)

Max(a, b) == IF a >= b THEN a ELSE b
Min(a, b) == IF a <= b THEN a ELSE b

\* mutant of ClampLevel: the level is stored as given
ClampLevelMissing(rl) == rl

\* max(0.0, min(1.0, randomization_level)), on numerators over RDen
ClampLevel(rl) == Max(0, Min(RDen, rl))

\* mutant of ClampGroups: the number of groups is stored as given
ClampGroupsMissing(ng) == ng

\* max(1, num_groups)
ClampGroups(ng) == Max(1, ng)

ResetLocals ==
    /\ traces' = <<>>
    /\ base_time' = NoTime
    /\ remaining' = 0
    /\ group' = 0
    /\ trace_id' = None
    /\ current_time' = NoTime
    /\ conn_idx' = 0

\* TraceGenerator(services, randomization_level, num_groups), from the raw
\* declarations: building a ServiceConfig may raise pydantic's
\* ValidationError, the constructor may raise ValueError.
Construct(decls, rl, ng) ==
    /\ pc = "new"
    /\ UNCHANGED <<traces, base_time, remaining, group, trace_id, current_time,
                   conn_idx, topo>>
    /\ call' = <<"TraceGenerator", decls, rl, ng>>
    /\ ret' = <<"none">>
    /\ IF \E i \in 1 .. Len(decls) : ~ServiceConfigOK(decls[i])
       THEN /\ err' = "ValidationError"
            /\ pc' = "failed"
            /\ UNCHANGED gen
       ELSE LET dict == ServicesDict(decls)
            IN  IF ValidateConnections(dict)
                THEN /\ gen' = [services |-> dict,
                                randomization_level |-> ClampLevel(rl),
                                num_groups |-> ClampGroups(ng)]
                     /\ pc' = "ready"
                     /\ err' = ""
                ELSE /\ err' = "ValueError"
                     /\ pc' = "failed"
                     /\ UNCHANGED gen

---------------------------------------------------------------------------
(* The formulas of the synthesizer *)

\* mutant of BaseDurations: a fourth service type has a base duration
BaseDurationsFourTypes == [proxy |-> 1, web |-> 3, database |-> 2, cache |-> 1]

\* base_durations, in tenths of a second
BaseDurations == [proxy |-> 1, web |-> 3, database |-> 2]

\* mutant of GenerateDuration: group / num_groups as an integer division
GenerateDurationIntDiv(self, service_type, grp, u) ==
    LET ng == self.num_groups
        rl == self.randomization_level
    IN  << BaseDurations[service_type] * (2 * ng + ng * (grp \div ng))
              * (2 * UDen * RDen + (2 * u - UDen) * rl),
           10 * (2 * ng) * (2 * UDen * RDen) >>

\* mutant of GenerateDuration: only a proxy's duration follows the group
GenerateDurationProxyOnly(self, service_type, grp, u) ==
    LET ng == self.num_groups
        rl == self.randomization_level
        g == IF service_type = "proxy" THEN grp ELSE 0
    IN  << BaseDurations[service_type] * (2 * ng + g)
              * (2 * UDen * RDen + (2 * u - UDen) * rl),
           10 * (2 * ng) * (2 * UDen * RDen) >>

\* _generate_duration(service_type, group) with random.random() = u/UDen:
\* base_duration * group_factor * random_factor as the fraction <<num, den>>,
\*   group_factor  = 1 + (group/num_groups) * 0.5 = (2*ng + group) / (2*ng)
\*   random_factor = 1 + (u/UDen - 0.5) * (rl/RDen)
\*                 = (2*UDen*RDen + (2*u - UDen)*rl) / (2*UDen*RDen)
\* Defined for service_type in DOMAIN BaseDurations; the code raises KeyError
\* for any other.
GenerateDuration(self, service_type, grp, u) ==
    LET ng == self.num_groups
        rl == self.randomization_level
    IN  << BaseDurations[service_type] * (2 * ng + grp)
              * (2 * UDen * RDen + (2 * u - UDen) * rl),
           10 * (2 * ng) * (2 * UDen * RDen) >>

\* mutant of SuccessRate: the factor (1 - randomization_level) is left out
SuccessRateNoLevel(self, grp) ==
    LET ng == self.num_groups
    IN  << (95 * ng - 10 * grp) * RDen, 100 * ng * RDen >>

\* success_rate of _generate_status as the fraction <<num, den>>:
\*   (0.95 - (group/num_groups) * 0.1) * (1 - randomization_level)
SuccessRate(self, grp) ==
    LET ng == self.num_groups
        rl == self.randomization_level
    IN  << (95 * ng - 10 * grp) * (RDen - rl), 100 * ng * RDen >>

\* _generate_status(group) with random.random() = u/UDen
GenerateStatus(self, grp, u) ==
    LET rate == SuccessRate(self, grp)
    IN  IF u * rate[2] < rate[1] * UDen THEN "success" ELSE "error"

\* the vocabularies of _generate_metadata
HttpMethods == <<"GET", "POST", "PUT", "DELETE">>
Components == <<"auth", "user", "order", "payment">>
Operations == <<"process", "validate", "transform">>
QueryTypes == <<"SELECT", "INSERT", "UPDATE", "DELETE">>
Tables == <<"users", "orders", "products", "inventory">>

\* the draws of _generate_metadata the model follows: the first and the last
\* value of every random.choice / random.randint
MetadataDraws(service_type) ==
    CASE service_type = "proxy" -> << <<1, 1, 1>>, <<4, 3, 100>> >>
      [] service_type = "web" -> << <<1, 1>>, <<4, 3>> >>
      [] service_type = "database" -> << <<1, 1>>, <<4, 4>> >>
      [] OTHER -> << <<>>, <<>> >>

\* _generate_metadata(service_type) with the draws m; an endpoint
\* /api/v{a}/resource/{b} is <<a, b>>; any other type gets {}
GenerateMetadata(service_type, mi) ==
    LET m == MetadataDraws(service_type)[mi]
    IN
    CASE service_type = "proxy" ->
            [http_method |-> HttpMethods[m[1]], endpoint |-> <<"/api/v", m[2], "/resource/", m[3]>>]
      [] service_type = "web" ->
            [component |-> Components[m[1]], operation |-> Operations[m[2]]]
      [] service_type = "database" ->
            [query_type |-> QueryTypes[m[1]], table |-> Tables[m[2]]]
      [] OTHER -> <<>>

\* _generate_trace_id: f"trace_{random.randint(1000, 9999)}_{datetime.now().timestamp()}"
GenerateTraceId(rnd, now) == <<rnd, now[1], now[2]>>

\* Trace(...): the span record
Trace(id, name, type, start, end, status, parent, meta) ==
    [trace_id |-> id, service_name |-> name, service_type |-> type,
     start_time |-> start, end_time |-> end, status |-> status,
     parent_trace_id |-> parent, metadata |-> meta]

\* timedelta(seconds = random.random() * 3600)
StartOffset(u) == Timedelta(u * 3600, UDen)

\* timedelta(seconds = duration)
DurationDelta(d) == Timedelta(d[1], d[2])

\* end_time = start_time + timedelta(seconds = duration)
SpanEnd(start, d) == DtAdd(start, DurationDelta(d))

\* current_time = start_time + timedelta(seconds = proxy_duration)
InitialCursor(start, d) == DtAdd(start, DurationDelta(d))

\* mutant of AdvanceCursor: the cursor is not advanced
AdvanceCursorStuck(cur, d) == cur

\* current_time += timedelta(seconds = conn_duration)
AdvanceCursor(cur, d) == DtAdd(cur, DurationDelta(d))

---------------------------------------------------------------------------
(* _create_trace: the manual single-span constructor *)

\* the trace ids, service names and service types callers pass in
ManualIds == {<<0>>, <<1>>}
ManualNames == {"api-gateway"}
ManualTypes == ServiceTypes \cup {"cache"}

CreateTrace(id, name, type, parent, grp, d) ==
    /\ pc = "ready"
    /\ grp \in 0 .. (gen.num_groups - 1)
    /\ pc' = "done"
    /\ call' = <<"_create_trace", id, name, type, parent>>
    /\ UNCHANGED <<gen, traces, base_time, remaining, group, trace_id,
                   current_time, conn_idx, topo>>
    /\ IF type \notin DOMAIN BaseDurations
       THEN /\ err' = "KeyError"
            /\ ret' = <<"none">>
       ELSE LET start_time == DtAdd(d.now, StartOffset(d.uo))
                duration == GenerateDuration(gen, type, grp, d.ud)
                status == GenerateStatus(gen, grp, d.us)
                metadata == GenerateMetadata(type, d.mi)
            IN  /\ err' = ""
                /\ ret' = <<"trace", Trace(id, name, type, start_time,
                                           SpanEnd(start_time, duration),
                                           status, parent, metadata)>>

---------------------------------------------------------------------------
(* generate_traces *)

\* next(s for s in self.services.values() if s.service_type == "proxy")
HasProxy(self) ==
    \E i \in 1 .. Len(self.services) : self.services[i].service_type = "proxy"

FirstProxy(self) ==
    LET i == CHOOSE k \in 1 .. Len(self.services) :
                /\ self.services[k].service_type = "proxy"
                /\ \A j \in 1 .. (k - 1) : self.services[j].service_type # "proxy"
    IN  self.services[i]

\* mutant of Lookup: the first declared service, whatever the name
LookupFirstDeclared(self, conn_name) == self.services[1]

\* self.services[conn_name]
Lookup(self, conn_name) ==
    LET i == CHOOSE k \in 1 .. Len(self.services) : self.services[k].name = conn_name
    IN  self.services[i]

\* mutant of GenerateTraces: without a proxy the loop is not entered
GenerateTracesSkipsWithoutProxy(num_traces, now) ==
    /\ pc = "ready"
    /\ pc' = "loop"
    /\ traces' = <<>>
    /\ base_time' = now
    /\ remaining' = IF HasProxy(gen) THEN num_traces ELSE 0
    /\ call' = <<"generate_traces", num_traces>>
    /\ err' = ""
    /\ ret' = <<"none">>
    /\ UNCHANGED <<gen, group, trace_id, current_time, conn_idx, topo>>

\* the call: traces = [], base_time = datetime.now()
GenerateTraces(num_traces, now) ==
    /\ pc = "ready"
    /\ pc' = "loop"
    /\ traces' = <<>>
    /\ base_time' = now
    /\ remaining' = num_traces
    /\ call' = <<"generate_traces", num_traces>>
    /\ err' = ""
    /\ ret' = <<"none">>
    /\ UNCHANGED <<gen, group, trace_id, current_time, conn_idx, topo>>

\* one iteration of "for _ in range(num_traces)" up to and including the
\* proxy span
RootSpan(grp, d) ==
    /\ pc = "loop"
    /\ remaining > 0
    /\ grp \in 0 .. (gen.num_groups - 1)
    /\ UNCHANGED <<gen, call, topo>>
    /\ IF ~HasProxy(gen)
       THEN \* next() raises StopIteration: the call ends, nothing is returned
            /\ err' = "StopIteration"
            /\ ret' = <<"none">>
            /\ pc' = "done"
            /\ ResetLocals
       ELSE LET id == GenerateTraceId(d.rnd, d.now)
                proxy_service == FirstProxy(gen)
                start_time == DtAdd(base_time, StartOffset(d.uo))
                proxy_duration == GenerateDuration(gen, "proxy", grp, d.ud)
                end_time == SpanEnd(start_time, proxy_duration)
                proxy_trace == Trace(id, proxy_service.name, "proxy", start_time,
                                     end_time, GenerateStatus(gen, grp, d.us), None,
                                     GenerateMetadata("proxy", d.mi))
            IN  /\ traces' = Append(traces, proxy_trace)
                /\ group' = grp
                /\ trace_id' = id
                /\ current_time' = InitialCursor(start_time, proxy_duration)
                /\ UNCHANGED <<base_time, err, ret>>
                /\ IF Len(proxy_service.connections) = 0
                   THEN /\ pc' = "loop"
                        /\ remaining' = remaining - 1
                        /\ conn_idx' = 0
                   ELSE /\ pc' = "children"
                        /\ conn_idx' = 1
                        /\ UNCHANGED remaining

\* one iteration of "for conn_name in proxy_service.connections"
ChildSpan(d) ==
    /\ pc = "children"
    /\ LET proxy_service == FirstProxy(gen)
           conn_service == Lookup(gen, proxy_service.connections[conn_idx])
           conn_duration == GenerateDuration(gen, conn_service.service_type, group, d.ud)
           conn_trace == Trace(GenerateTraceId(d.rnd, d.now), conn_service.name,
                               conn_service.service_type, current_time,
                               SpanEnd(current_time, conn_duration),
                               GenerateStatus(gen, group, d.us), trace_id,
                               GenerateMetadata(conn_service.service_type, d.mi))
       IN  /\ traces' = Append(traces, conn_trace)
           /\ current_time' = AdvanceCursor(current_time, conn_duration)
           /\ IF conn_idx = Len(proxy_service.connections)
              THEN /\ pc' = "loop"
                   /\ remaining' = remaining - 1
                   /\ conn_idx' = 0
              ELSE /\ conn_idx' = conn_idx + 1
                   /\ UNCHANGED <<pc, remaining>>
    /\ UNCHANGED <<gen, call, err, ret, base_time, group, trace_id, topo>>

\* return traces
ReturnTraces ==
    /\ pc = "loop"
    /\ remaining = 0
    /\ ret' = <<"traces", traces>>
    /\ err' = ""
    /\ pc' = "done"
    /\ ResetLocals
    /\ UNCHANGED <<gen, call, topo>>

---------------------------------------------------------------------------
(* The declared topologies and the arguments the model follows *)

\* generate_example_services("simple")
SimpleServices ==
    << ServiceConfig("gateway", "proxy", <<"backend">>),
       ServiceConfig("backend", "web", <<"database">>),
       ServiceConfig("database", "database", <<>>) >>

\* a proxy with two connections, of different types
FanOutServices ==
    << ServiceConfig("edge-router", "proxy", <<"api-service", "content-db">>),
       ServiceConfig("api-service", "web", <<"content-db">>),
       ServiceConfig("content-db", "database", <<>>) >>

\* a valid topology without any proxy
NoProxyServices ==
    << ServiceConfig("backend", "web", <<"database">>),
       ServiceConfig("database", "database", <<>>) >>

\* a connection to an undeclared service
DanglingServices ==
    << ServiceConfig("gateway", "proxy", <<"backend">>) >>

\* a service type pydantic rejects
BadTypeServices ==
    << ServiceConfig("gateway", "cache", <<>>) >>

ExampleServiceLists ==
    {SimpleServices, FanOutServices, NoProxyServices, DanglingServices, BadTypeServices}

\* randomization_level arguments, as numerators over RDen: from -1 to 3
LevelArgs == (0 - RDen) .. (3 * RDen)

\* num_groups arguments: negative, zero, and 1 .. MaxGroups
GroupArgs == (0 - 1) .. MaxGroups

TopoIdle == [phase |-> "idle"]

Init ==
    /\ gen = NoGen
    /\ pc = "new"
    /\ call = <<"none">>
    /\ err = ""
    /\ ret = <<"none">>
    /\ traces = <<>>
    /\ base_time = NoTime
    /\ remaining = 0
    /\ group = 0
    /\ trace_id = None
    /\ current_time = NoTime
    /\ conn_idx = 0
    /\ topo = TopoIdle

Next ==
    \/ \E decls \in ExampleServiceLists, rl \in LevelArgs, ng \in GroupArgs :
          Construct(decls, rl, ng)
    \/ \E n \in 0 .. MaxTraces, now \in NowReadings : GenerateTraces(n, now)
    \/ \E grp \in 0 .. (MaxGroups - 1), d \in SpanDraws : RootSpan(grp, d)
    \/ \E d \in SpanDraws : ChildSpan(d)
    \/ ReturnTraces
    \/ \E id \in ManualIds, name \in ManualNames, type \in ManualTypes,
          parent \in {None} \cup ManualIds, grp \in 0 .. (MaxGroups - 1),
          d \in SpanDraws :
          CreateTrace(id, name, type, parent, grp, d)

Spec == Init /\ [][Next]_vars

---------------------------------------------------------------------------
(* The constructor over every short list of declarations *)

DeclNames == {"a", "b"}

ConnLists == UNION {[1 .. k -> DeclNames] : k \in 0 .. MaxConns}

DeclTypes == {"proxy", "web"}

Decls == {ServiceConfig(n, t, c) : n \in DeclNames, t \in DeclTypes, c \in ConnLists}

DeclLists == UNION {[1 .. k -> Decls] : k \in 0 .. MaxDecls}

NextCtor ==
    \E decls \in DeclLists : Construct(decls, RDen, 1)

SpecCtor == Init /\ [][NextCtor]_vars

---------------------------------------------------------------------------
(* The formulas of the synthesizer on their own: _generate_duration and   *)
(* the success rate of _generate_status, applied to pairs of arguments    *)

FormulaGroups == 4      \* num_groups of the generators of SpecFormulas

\* _generate_duration(service_type, g1) and _generate_duration(service_type, g2)
\* on one generator, with the draws u1 and u2
DurationPair(service_type, g1, g2, u1, u2) ==
    /\ pc = "ready"
    /\ g1 \in 0 .. (gen.num_groups - 1)
    /\ g2 \in 0 .. (gen.num_groups - 1)
    /\ pc' = "done"
    /\ call' = <<"_generate_duration", service_type, g1, g2>>
    /\ err' = ""
    /\ ret' = <<"durations", GenerateDuration(gen, service_type, g1, u1),
                             GenerateDuration(gen, service_type, g2, u2)>>
    /\ UNCHANGED <<gen, traces, base_time, remaining, group, trace_id,
                   current_time, conn_idx, topo>>

\* the success rate of _generate_status(g1) on the generator and of
\* _generate_status(g2) on a generator with the same services and
\* num_groups and the randomization level rl2
SuccessRatePair(g1, g2, rl2) ==
    /\ pc = "ready"
    /\ g1 \in 0 .. (gen.num_groups - 1)
    /\ g2 \in 0 .. (gen.num_groups - 1)
    /\ pc' = "done"
    /\ call' = <<"_generate_status", g1, g2, ClampLevel(rl2)>>
    /\ err' = ""
    /\ ret' = <<"rates", SuccessRate(gen, g1),
                         SuccessRate([gen EXCEPT !.randomization_level = ClampLevel(rl2)], g2)>>
    /\ UNCHANGED <<gen, traces, base_time, remaining, group, trace_id,
                   current_time, conn_idx, topo>>

NextFormulas ==
    \/ \E rl \in LevelArgs, ng \in 0 .. FormulaGroups : Construct(SimpleServices, rl, ng)
    \/ \E t \in ServiceTypes, g1 \in 0 .. (FormulaGroups - 1), g2 \in 0 .. (FormulaGroups - 1),
          u1 \in {0, UDen - 1}, u2 \in {0, UDen - 1} :
          DurationPair(t, g1, g2, u1, u2)
    \/ \E g1 \in 0 .. (FormulaGroups - 1), g2 \in 0 .. (FormulaGroups - 1), rl2 \in LevelArgs :
          SuccessRatePair(g1, g2, rl2)

SpecFormulas == Init /\ [][NextFormulas]_vars

---------------------------------------------------------------------------
(* generate_random_topology *)

MaxServices == 4    \* num_services arguments are 2..MaxServices
PassCap == 10       \* for _ in range(max_depth, 10)

\* max_width arguments: negative, none, one, and as many as a service of the
\* largest topology has targets to choose from
WidthArgs == {-1, 0, 1, 2}

\* max_depth arguments: too small, pruning ones, no pass
DepthArgs == {1, 2, 3, 10}

\* variability arguments, in halves: 0, 0.5 and 1.0
VariabilityArgs == {0, 1, 2}

\* num_service_groups arguments (the default is 2)
ServiceGroupsArgs == {0, 2}

\* seed arguments: None or a number
SeedArgs == {<<>>, <<50>>}

Range(f) == {f[i] : i \in DOMAIN f}

\* the orders random.shuffle may leave a list in
Perms(l) ==
    {p \in [1 .. Len(l) -> Range(l)] : \A i \in 1 .. Len(l) : \A j \in 1 .. Len(l) :
                                          i # j => p[i] # p[j]}

\* the orders of all_services the general specification follows: the
\* rotations of the list and of its reverse (every order of up to three)
Rotations(l) ==
    {[i \in 1 .. Len(l) |-> l[((i + k) % Len(l)) + 1]] : k \in 0 .. Len(l) - 1}
Reverse(l) == [i \in 1 .. Len(l) |-> l[Len(l) + 1 - i]]
ShuffleOrders(l) == Rotations(l) \cup Rotations(Reverse(l))

\* mutant of Slice: the list is not cut
SliceNothing(l, w) == l

\* l[:w]
Slice(l, w) ==
    IF w >= 0 THEN SubSeq(l, 1, Min(w, Len(l)))
    ELSE SubSeq(l, 1, Max(0, Len(l) + w))

\* mutant of RemoveAt: the element at position i and all after it are dropped
RemoveAtAndAfter(l, i) == SubSeq(l, 1, i - 1)

\* l without its element at position i
RemoveAt(l, i) == SubSeq(l, 1, i - 1) \o SubSeq(l, i + 1, Len(l))

\* [s for s in l if s not in excluded]
Without(l, excluded) == SelectSeq(l, LAMBDA x : x \notin excluded)

\* mutant of ArgumentsRejected: the check of num_services is missing
ArgumentsRejectedDepthOnly(num_services, max_depth) == max_depth < 2

\* "if num_services < 3: raise ValueError", "if max_depth < 2: raise ValueError"
ArgumentsRejected(num_services, max_depth) == num_services < 3 \/ max_depth < 2

\* mutant of NumProxy: half of the services are proxies
NumProxyHalf(n) == Max(1, n \div 2)

\* max(1, int(num_services * 0.2)) and max(1, int(num_services * 0.3))
NumProxy(n) == Max(1, (n * 2) \div 10)
NumDb(n) == Max(1, (n * 3) \div 10)

\* f"proxy-{i+1}", f"service-{i+1}", f"db-{i+1}" as <<prefix, i+1>>
NameList(prefix, count) == [i \in 1 .. count |-> <<prefix, i>>]

\* mutant of FindLongestPath: a service met again counts once more
RECURSIVE FindLongestPathRevisit(_, _, _)
FindLongestPathRevisit(connections, start_service, visited) ==
    IF start_service \in visited THEN 1
    ELSE IF connections[start_service] = <<>> THEN 1
    ELSE LET seen == visited \cup {start_service}
             lengths == {FindLongestPathRevisit(connections, connections[start_service][i], seen) :
                            i \in 1 .. Len(connections[start_service])}
         IN  1 + (CHOOSE m \in lengths : \A x \in lengths : x <= m)

\* find_longest_path(connections, start_service, visited)
RECURSIVE FindLongestPath(_, _, _)
FindLongestPath(connections, start_service, visited) ==
    IF start_service \in visited THEN 0
    ELSE IF connections[start_service] = <<>> THEN 1
    ELSE LET seen == visited \cup {start_service}
             lengths == {FindLongestPath(connections, connections[start_service][i], seen) :
                            i \in 1 .. Len(connections[start_service])}
         IN  1 + (CHOOSE m \in lengths : \A x \in lengths : x <= m)

\* the state after the last loop over all_services: the loop variables and
\* all_services are not read again and are left out of the state
AfterVary(t) ==
    [t EXCEPT !.phase = "emit", !.all_services = <<>>, !.pass = 0, !.idx = 0]

\* the phase after depth bounding ("if variability > 0"), and the one after
\* initial wiring
AfterPrune(t) ==
    IF t.variability > 0 THEN [t EXCEPT !.phase = "vary", !.pass = 0, !.idx = 1]
    ELSE AfterVary(t)

\* range(max_depth, 10): the values the pass variable takes
PassRange(max_depth) == max_depth .. (PassCap - 1)

AfterWire(t) ==
    IF PassRange(t.max_depth) # {}
    THEN [t EXCEPT !.phase = "prune", !.pass = t.max_depth, !.idx = 1]
    ELSE AfterPrune(t)

\* The call, up to "connections = {}".  The two checks raise ValueError
\* before anything else but random.seed; num_services // num_service_groups
\* raises ZeroDivisionError after the shuffle of all_services.  Both loops
\* over all_services skip a database, so the model follows the shuffles that
\* leave the databases last.
GenerateRandomTopology(num_services, max_depth, max_width, num_service_groups, variability, seed, shuffled) ==
    /\ topo.phase = "idle"
    /\ UNCHANGED <<gen, pc, call, err, ret, traces, base_time, remaining, group,
                   trace_id, current_time, conn_idx>>
    /\ LET args == [num_services |-> num_services, max_depth |-> max_depth,
                    max_width |-> max_width, num_service_groups |-> num_service_groups,
                    variability |-> variability, seed |-> seed]
           num_proxy == NumProxy(num_services)
           num_db == NumDb(num_services)
           num_web == num_services - num_proxy - num_db
           proxy_names == NameList("proxy", num_proxy)
           web_names == NameList("service", num_web)
           db_names == NameList("db", num_db)
       IN  IF ArgumentsRejected(num_services, max_depth)
           THEN topo' = [phase |-> "raised", err |-> "ValueError", args |-> args,
                         seeded |-> (seed # <<>>), drew |-> FALSE,
                         names |-> <<>>, connections |-> <<>>, result |-> <<>>]
           ELSE /\ shuffled \in Perms(proxy_names \o web_names)
                /\ IF num_service_groups = 0
                   THEN topo' = [phase |-> "raised", err |-> "ZeroDivisionError",
                                 args |-> args, seeded |-> (seed # <<>>), drew |-> TRUE,
                                 names |-> proxy_names \o web_names \o db_names,
                                 connections |-> <<>>, result |-> <<>>]
                   ELSE topo' = [phase |-> "wire_proxy",
                                 num_services |-> num_services,
                                 max_depth |-> max_depth,
                                 max_width |-> max_width,
                                 variability |-> variability,
                                 proxy_names |-> proxy_names,
                                 web_names |-> web_names,
                                 db_names |-> db_names,
                                 all_services |-> shuffled \o db_names,
                                 connections |-> <<>>,
                                 pass |-> 0,
                                 passes |-> 0,
                                 idx |-> 1,
                                 drew |-> TRUE,
                                 result |-> <<>>]

\* connections[name] = targets
Assign(connections, name, targets) ==
    [n \in (DOMAIN connections) \cup {name} |->
        IF n = name THEN targets ELSE connections[n]]

\* one iteration of "for proxy in proxy_names": shuffled is the order
\* random.shuffle leaves available_targets in
WireProxy(shuffled) ==
    /\ topo.phase = "wire_proxy"
    /\ shuffled \in Perms(topo.web_names)
    /\ LET proxy == topo.proxy_names[topo.idx]
           width == Min(topo.max_width, Len(shuffled))
           t == [topo EXCEPT !.connections = Assign(@, proxy, Slice(shuffled, width))]
       IN  topo' = IF topo.idx = Len(topo.proxy_names)
                   THEN [t EXCEPT !.phase = "wire_web", !.idx = 1]
                   ELSE [t EXCEPT !.idx = @ + 1]
    /\ UNCHANGED <<gen, pc, call, err, ret, traces, base_time, remaining, group,
                   trace_id, current_time, conn_idx>>

\* mutant of LaterWebs: every other web service
LaterWebsAll(web_names, idx) == Without(web_names, {web_names[idx]})

\* web_names[web_idx+1:] if web_idx < len(web_names) - 1 else [], for the web
\* service at position idx (counted from 1)
LaterWebs(web_names, idx) == SubSeq(web_names, idx + 1, Len(web_names))

\* one iteration of "for web in web_names": include is the outcome of
\* random.random() < 0.7 (drawn only when there are later web services)
WireWeb(include, shuffled) ==
    /\ topo.phase = "wire_web"
    /\ LET web == topo.web_names[topo.idx]
           later_webs == LaterWebs(topo.web_names, topo.idx)
           available_targets ==
               (IF later_webs # <<>> /\ include THEN later_webs ELSE <<>>) \o topo.db_names
           width == Min(topo.max_width, Len(available_targets))
           t == [topo EXCEPT !.connections = Assign(@, web, Slice(shuffled, width))]
       IN  /\ later_webs = <<>> => include = FALSE
           /\ shuffled \in Perms(available_targets)
           /\ topo' = IF topo.idx = Len(topo.web_names)
                      THEN [t EXCEPT !.phase = "wire_db", !.idx = 1]
                      ELSE [t EXCEPT !.idx = @ + 1]
    /\ UNCHANGED <<gen, pc, call, err, ret, traces, base_time, remaining, group,
                   trace_id, current_time, conn_idx>>

\* "for db in db_names: connections[db] = []", the whole loop
WireDbs ==
    /\ topo.phase = "wire_db"
    /\ LET conns == [n \in (DOMAIN topo.connections) \cup Range(topo.db_names) |->
                        IF n \in Range(topo.db_names) THEN <<>> ELSE topo.connections[n]]
       IN  topo' = AfterWire([topo EXCEPT !.connections = conns])
    /\ UNCHANGED <<gen, pc, call, err, ret, traces, base_time, remaining, group,
                   trace_id, current_time, conn_idx>>

\* mutant of Pruned: the first target is removed whatever the longest path
PrunedUnchecked(connections, service, max_depth) ==
    IF connections[service] # <<>>
    THEN [connections EXCEPT ![service] = Tail(@)]
    ELSE connections

\* the body of "for service in all_services" in one pruning pass: the first
\* target is removed when the longest path from the service exceeds max_depth
Pruned(connections, service, max_depth) ==
    IF connections[service] # <<>>
       /\ FindLongestPath(connections, service, {}) > max_depth
    THEN [connections EXCEPT ![service] = Tail(@)]
    ELSE connections

\* passes counts the passes of the pruning loop that have ended
PruneStep ==
    /\ topo.phase = "prune"
    /\ LET service == topo.all_services[topo.idx]
           t == [topo EXCEPT !.connections = Pruned(@, service, topo.max_depth)]
       IN  topo' = IF topo.idx < Len(topo.all_services)
                   THEN [t EXCEPT !.idx = @ + 1]
                   ELSE IF (topo.pass + 1) \in PassRange(topo.max_depth)
                        THEN [t EXCEPT !.pass = @ + 1, !.idx = 1, !.passes = @ + 1]
                        ELSE AfterPrune([t EXCEPT !.passes = @ + 1])
    /\ UNCHANGED <<gen, pc, call, err, ret, traces, base_time, remaining, group,
                   trace_id, current_time, conn_idx>>

\* mutant of AvailableTargets: every web service and database is a candidate
AvailableTargetsAny(t, service) == t.web_names \o t.db_names

\* the targets the variability step may add to a service
AvailableTargets(t, service) ==
    IF service \in Range(t.proxy_names)
    THEN Without(t.web_names, Range(t.connections[service]))
    ELSE IF service \in Range(t.web_names)
         THEN Without(t.web_names \o t.db_names,
                      Range(t.connections[service]) \cup {service})
         ELSE <<>>

\* the outcomes of random.random() < variability (variability in halves)
ChanceOutcomes(variability) == IF variability >= 2 THEN {TRUE} ELSE {TRUE, FALSE}

\* the body of "for service in all_services" in the variability step: add is
\* the first random.random() < variability, pick the index random.choice
\* takes, rem the second random.random() < variability, pos the value of
\* random.randrange
VaryStep(add, pick, rem, pos) ==
    /\ topo.phase = "vary"
    /\ add \in ChanceOutcomes(topo.variability)
    /\ rem \in ChanceOutcomes(topo.variability)
    /\ LET service == topo.all_services[topo.idx]
           available_targets == AvailableTargets(topo, service)
           adds == /\ add
                   /\ service \notin Range(topo.db_names)
                   /\ available_targets # <<>>
                   /\ Len(topo.connections[service]) < topo.max_width
           added == IF adds
                    THEN Append(topo.connections[service], available_targets[pick])
                    ELSE topo.connections[service]
           removes == rem /\ added # <<>>
           final == IF removes THEN RemoveAt(added, pos) ELSE added
           t == [topo EXCEPT !.connections[service] = final]
       IN  /\ IF adds THEN pick \in 1 .. Len(available_targets) ELSE pick = 1
           /\ IF removes THEN pos \in 1 .. Len(added) ELSE pos = 1
           /\ topo' = IF topo.idx < Len(topo.all_services)
                      THEN [t EXCEPT !.idx = @ + 1]
                      ELSE AfterVary(t)
    /\ UNCHANGED <<gen, pc, call, err, ret, traces, base_time, remaining, group,
                   trace_id, current_time, conn_idx>>

\* mutant of ServiceConfigs: the databases are left out of the list
ServiceConfigsNoDbs(t) ==
    [i \in 1 .. Len(t.proxy_names) |->
        ServiceConfig(t.proxy_names[i], "proxy", t.connections[t.proxy_names[i]])]
    \o [i \in 1 .. Len(t.web_names) |->
        ServiceConfig(t.web_names[i], "web", t.connections[t.web_names[i]])]

\* the three loops that build service_configs, and the return
ServiceConfigs(t) ==
    [i \in 1 .. Len(t.proxy_names) |->
        ServiceConfig(t.proxy_names[i], "proxy", t.connections[t.proxy_names[i]])]
    \o [i \in 1 .. Len(t.web_names) |->
        ServiceConfig(t.web_names[i], "web", t.connections[t.web_names[i]])]
    \o [i \in 1 .. Len(t.db_names) |->
        ServiceConfig(t.db_names[i], "database", <<>>)]

Emit ==
    /\ topo.phase = "emit"
    /\ topo' = [topo EXCEPT !.phase = "returned", !.result = ServiceConfigs(topo)]
    /\ UNCHANGED <<gen, pc, call, err, ret, traces, base_time, remaining, group,
                   trace_id, current_time, conn_idx>>

NextTopo ==
    \/ /\ topo.phase = "idle"
       /\ \E n \in 2 .. MaxServices, md \in DepthArgs, mw \in WidthArgs,
          nsg \in ServiceGroupsArgs, v \in VariabilityArgs, seed \in SeedArgs :
          \E shuffled \in ShuffleOrders(NameList("proxy", NumProxy(n))
                                        \o NameList("service", n - NumProxy(n) - NumDb(n)))
                           \cup {<<>>} :
             /\ ArgumentsRejected(n, md) <=> (shuffled = <<>>)
             /\ GenerateRandomTopology(n, md, mw, nsg, v, seed, shuffled)
    \/ /\ topo.phase = "wire_proxy"
       /\ \E shuffled \in Perms(topo.web_names) : WireProxy(shuffled)
    \/ /\ topo.phase = "wire_web"
       /\ \E include \in BOOLEAN :
          \E shuffled \in Perms((IF include
                                 THEN LaterWebs(topo.web_names, topo.idx)
                                 ELSE <<>>) \o topo.db_names) :
             WireWeb(include, shuffled)
    \/ WireDbs
    \/ PruneStep
    \/ /\ topo.phase = "vary"
       /\ \E add \in BOOLEAN, rem \in BOOLEAN, pick \in 1 .. MaxServices,
             pos \in 1 .. MaxServices :
             VaryStep(add, pick, rem, pos)
    \/ Emit

SpecTopo == Init /\ [][NextTopo]_vars

\* generate_random_topology(num_services=5, max_depth=2) with the other
\* parameters at their defaults: max_width=3, num_service_groups=2,
\* variability=0.3 (a value that random.random() may fall on either side
\* of, as 0.5 is), seed None or a number; every order of all_services
DefaultMaxWidth == 3
DefaultServiceGroups == 2

NextTopoDefaults ==
    \/ /\ topo.phase = "idle"
       /\ \E seed \in SeedArgs :
          \E shuffled \in Perms(NameList("proxy", NumProxy(5))
                                \o NameList("service", 5 - NumProxy(5) - NumDb(5))) :
             GenerateRandomTopology(5, 2, DefaultMaxWidth, DefaultServiceGroups, 1,
                                    seed, shuffled)
    \/ /\ topo.phase = "wire_proxy"
       /\ \E shuffled \in Perms(topo.web_names) : WireProxy(shuffled)
    \/ /\ topo.phase = "wire_web"
       /\ \E include \in BOOLEAN :
          \E shuffled \in Perms((IF include
                                 THEN LaterWebs(topo.web_names, topo.idx)
                                 ELSE <<>>) \o topo.db_names) :
             WireWeb(include, shuffled)
    \/ WireDbs
    \/ PruneStep
    \/ /\ topo.phase = "vary"
       /\ \E add \in BOOLEAN, rem \in BOOLEAN, pick \in 1 .. 5, pos \in 1 .. 5 :
             VaryStep(add, pick, rem, pos)
    \/ Emit

SpecTopoDefaults == Init /\ [][NextTopoDefaults]_vars

---------------------------------------------------------------------------
(* find_longest_path on connection maps given by the caller: every map    *)
(* over MaxNodes services whose targets are services of the map, cycles   *)
(* and self-loops included                                                *)

MaxNodes == 3

PathNodes == NameList("service", MaxNodes)

\* the lists of distinct targets, in the order of PathNodes
TargetLists == {SelectSeq(PathNodes, LAMBDA x : x \in chosen) : chosen \in SUBSET Range(PathNodes)}

ConnectionMaps == [Range(PathNodes) -> TargetLists]

\* find_longest_path(connections, start_service) with visited left at None
FindLongestPathCall(connections, start_service) ==
    /\ pc = "new"
    /\ pc' = "done"
    /\ call' = <<"find_longest_path", connections, start_service>>
    /\ err' = ""
    /\ ret' = <<"length", FindLongestPath(connections, start_service, {})>>
    /\ UNCHANGED <<gen, traces, base_time, remaining, group, trace_id,
                   current_time, conn_idx, topo>>

NextPaths ==
    /\ pc = "new"
    /\ \E connections \in ConnectionMaps, start_service \in Range(PathNodes) :
          FindLongestPathCall(connections, start_service)

SpecPaths == Init /\ [][NextPaths]_vars

---------------------------------------------------------------------------
(* extract_trace_hierarchy and the grouping pass of save_to_json and      *)
(* save_to_csv, over span lists given by the caller                       *)

MaxSpans == 3       \* enumerated span lists have at most MaxSpans spans

\* "if trace.parent_trace_id:"
Truthy(x) == x # None /\ x # <<"">>

\* a span with the given id and parent, its other fields fixed
SpanOf(id, parent) ==
    Trace(id, "svc", "web", NoTime, NoTime, "success", parent, <<>>)

\* the spans R (root), A and B (children of R) and C (child of A)
SpanR == SpanOf(<<"R">>, None)
SpanA == SpanOf(<<"A">>, <<"R">>)
SpanB == SpanOf(<<"B">>, <<"R">>)
SpanC == SpanOf(<<"C">>, <<"A">>)

\* keys of {trace.trace_id: trace for trace in traces}
TraceMapKeys(trs) == {trs[i].trace_id : i \in 1 .. Len(trs)}

\* trace_map[trace_id]: the last span of the list with that id
TraceMapGet(trs, id) ==
    trs[CHOOSE i \in 1 .. Len(trs) :
            /\ trs[i].trace_id = id
            /\ \A j \in (i + 1) .. Len(trs) : trs[j].trace_id # id]

\* mutant of ChildMap: the children of an id, the last one first
ChildMapReversed(trs, id) ==
    LET kids == SelectSeq(trs, LAMBDA t : Truthy(t.parent_trace_id)
                                            /\ t.parent_trace_id = id)
    IN  [i \in 1 .. Len(kids) |-> kids[Len(kids) + 1 - i]]

\* child_map.get(id, []): the spans naming id as their parent, in list order
ChildMap(trs, id) ==
    SelectSeq(trs, LAMBDA t : Truthy(t.parent_trace_id) /\ t.parent_trace_id = id)

\* the result of a collect_traces call: the spans collected, and whether the
\* recursion never ends (RecursionError)
Collected(spans, overflow) == [spans |-> spans, overflow |-> overflow]

\* collect_traces(trace_id) of extract_trace_hierarchy.  depth counts the
\* calls that may still nest: a chain of calls longer than the list goes
\* through some id twice and so never ends.
RECURSIVE CollectById(_, _, _)
RECURSIVE CollectChildrenById(_, _, _)
CollectById(trs, id, depth) ==
    IF id \notin TraceMapKeys(trs) THEN Collected(<<>>, FALSE)
    ELSE IF depth = 0 THEN Collected(<<>>, TRUE)
    ELSE LET below == CollectChildrenById(trs, ChildMap(trs, id), depth - 1)
         IN  Collected(<<TraceMapGet(trs, id)>> \o below.spans, below.overflow)

CollectChildrenById(trs, kids, depth) ==
    IF kids = <<>> THEN Collected(<<>>, FALSE)
    ELSE LET first == CollectById(trs, Head(kids).trace_id, depth)
             rest == CollectChildrenById(trs, Tail(kids), depth)
         IN  Collected(first.spans \o rest.spans, first.overflow \/ rest.overflow)

\* collect_traces(trace) of save_to_json and save_to_csv
RECURSIVE CollectTrace(_, _, _)
RECURSIVE CollectChildren(_, _, _)
\* mutant of CollectTrace: the span comes after its children
CollectTraceChildrenFirst(trs, trace, depth) ==
    IF depth = 0 THEN Collected(<<>>, TRUE)
    ELSE LET below == CollectChildren(trs, ChildMap(trs, trace.trace_id), depth - 1)
         IN  Collected(below.spans \o <<trace>>, below.overflow)

CollectTrace(trs, trace, depth) ==
    IF depth = 0 THEN Collected(<<>>, TRUE)
    ELSE LET below == CollectChildren(trs, ChildMap(trs, trace.trace_id), depth - 1)
         IN  Collected(<<trace>> \o below.spans, below.overflow)

CollectChildren(trs, kids, depth) ==
    IF kids = <<>> THEN Collected(<<>>, FALSE)
    ELSE LET first == CollectTrace(trs, Head(kids), depth)
             rest == CollectChildren(trs, Tail(kids), depth)
         IN  Collected(first.spans \o rest.spans, first.overflow \/ rest.overflow)

\* root_traces = [trace for trace in traces if trace.parent_trace_id is None]
RootTraces(trs) == SelectSeq(trs, LAMBDA t : t.parent_trace_id = None)

\* "for root_trace in root_traces: grouped_traces.extend(collect_traces(root_trace))"
GroupedTraces(trs) == CollectChildren(trs, RootTraces(trs), Len(trs) + 1)

\* mutant of NotFoundResult: the whole list is returned
NotFoundResultAll(trs) == trs

\* "return []" after the warning
NotFoundResult(trs) == <<>>

\* extract_trace_hierarchy(traces, root_trace_id)
ExtractTraceHierarchy(trs, root_trace_id) ==
    /\ pc = "new"
    /\ pc' = "done"
    /\ call' = <<"extract_trace_hierarchy", trs, root_trace_id>>
    /\ IF root_trace_id \notin TraceMapKeys(trs)
       THEN /\ err' = ""
            /\ ret' = <<"traces", NotFoundResult(trs), "Warning">>
       ELSE LET result == CollectById(trs, root_trace_id, Len(trs) + 1)
            IN  IF result.overflow
                THEN err' = "RecursionError" /\ ret' = <<"none">>
                ELSE err' = "" /\ ret' = <<"traces", result.spans, "">>
    /\ UNCHANGED <<gen, traces, base_time, remaining, group, trace_id,
                   current_time, conn_idx, topo>>

\* hierarchy_levels after the first k spans of grouped_traces: a later span
\* with the same trace_id overwrites the entry of an earlier one
RECURSIVE HierarchyLevels(_, _)
HierarchyLevels(grouped, k) ==
    IF k = 0 THEN <<>>
    ELSE LET levels == HierarchyLevels(grouped, k - 1)
             trace == grouped[k]
             parent_level == IF trace.parent_trace_id \in DOMAIN levels
                             THEN levels[trace.parent_trace_id]
                             ELSE 0
         IN  Assign(levels, trace.trace_id,
                    IF trace.parent_trace_id = None THEN 0 ELSE parent_level + 1)

\* mutant of RowLevels: the column holds the position in the file
RowLevelsByPosition(grouped) == [k \in 1 .. Len(grouped) |-> k - 1]

\* the hierarchy_level column, row by row:
\* hierarchy_levels.get(trace.trace_id, 0) once the dictionary is complete
RowLevels(grouped) ==
    [k \in 1 .. Len(grouped) |->
        HierarchyLevels(grouped, Len(grouped))[grouped[k].trace_id]]

\* the grouping pass of save_to_json (lines 61-86) and of save_to_csv
\* (lines 117-141), and the hierarchy_level column save_to_csv writes for the
\* grouped spans
GroupTraces(fn, trs) ==
    /\ pc = "new"
    /\ pc' = "done"
    /\ call' = <<fn, trs>>
    /\ LET grouped == GroupedTraces(trs)
       IN  IF grouped.overflow
           THEN err' = "RecursionError" /\ ret' = <<"none">>
           ELSE /\ err' = ""
                /\ ret' = <<"grouped", grouped.spans,
                            IF fn = "save_to_csv" THEN RowLevels(grouped.spans) ELSE <<>>>>
    /\ UNCHANGED <<gen, traces, base_time, remaining, group, trace_id,
                   current_time, conn_idx, topo>>

\* datetime.isoformat() and datetime.fromisoformat(): the microseconds are
\* written only when they are not 0
IsoFormat(dt) == IF dt[2] = 0 THEN <<"iso", dt[1]>> ELSE <<"iso", dt[1], dt[2]>>
FromIsoFormat(str) == IF Len(str) = 2 THEN <<str[2], 0>> ELSE <<str[2], str[3]>>

\* the dictionaries save_to_json writes, and the spans load_from_json builds
\* from them
TraceDicts(grouped) ==
    [k \in 1 .. Len(grouped) |->
        [grouped[k] EXCEPT !.start_time = IsoFormat(@), !.end_time = IsoFormat(@)]]

LoadFromJson(trace_dicts) ==
    [k \in 1 .. Len(trace_dicts) |->
        [trace_dicts[k] EXCEPT !.start_time = FromIsoFormat(@),
                               !.end_time = FromIsoFormat(@)]]

\* "analyze --regroup": the file a save_to_json call wrote is loaded and
\* saved again
RegroupTraces ==
    /\ pc = "done"
    /\ call[1] = "save_to_json"
    /\ ret[1] = "grouped"
    /\ pc' = "regrouped"
    /\ LET traces_loaded == LoadFromJson(TraceDicts(ret[2]))
           grouped == GroupedTraces(traces_loaded)
       IN  /\ call' = <<"save_to_json", traces_loaded>>
           /\ IF grouped.overflow
              THEN err' = "RecursionError" /\ ret' = <<"none">>
              ELSE err' = "" /\ ret' = <<"grouped", grouped.spans, <<>>>>
    /\ UNCHANGED <<gen, traces, base_time, remaining, group, trace_id,
                   current_time, conn_idx, topo>>

\* the span lists the model follows: every list of up to MaxSpans spans over
\* three ids, the empty string among them, and every order of R, A, B, C
HierarchyIds == {<<"R">>, <<"A">>, <<"">>}
HierarchySpans == {SpanOf(id, parent) : id \in HierarchyIds,
                                        parent \in {None} \cup HierarchyIds}
FamilyLists == Perms(<<SpanR, SpanA, SpanB, SpanC>>)
SpanLists == UNION {[1 .. k -> HierarchySpans] : k \in 0 .. MaxSpans} \cup FamilyLists
RootIdArgs == HierarchyIds \cup {<<"C">>, <<"X">>}
SaveFunctions == {"save_to_json", "save_to_csv"}

NextHierarchy ==
    \/ /\ pc = "new"
       /\ \E trs \in SpanLists, root_trace_id \in RootIdArgs :
             ExtractTraceHierarchy(trs, root_trace_id)
    \/ /\ pc = "new"
       /\ \E fn \in SaveFunctions, trs \in SpanLists : GroupTraces(fn, trs)
    \/ RegroupTraces

SpecHierarchy == Init /\ [][NextHierarchy]_vars

---------------------------------------------------------------------------
(* generate_dataset, run twice with the same arguments and the same seed  *)

\* seeds, and the clock readings a run may start at; the k-th reading of a
\* run is k microseconds after its start
DatasetSeeds == {1, 2}
ClockStarts == {<<100, 0>>, <<100, 999990>>, <<200, 7>>}

\* datetime.now(), the k-th reading of a run that started at clock
ClockReading(clock, k) == DtAdd(clock, <<0, k>>)

\* The draws of the s-th span of a run after random.seed(seed): a fixed
\* function of the seed and of the position in the stream (the least draws
\* or the greatest, by parity); only the clock reading is the run's own.
SeededDraws(seed, s, clock) ==
    IF (seed + s) % 2 = 0
    THEN [rnd |-> 1000, now |-> ClockReading(clock, s), uo |-> 0, ud |-> 0, us |-> 0,
          mi |-> 1]
    ELSE [rnd |-> 9999, now |-> ClockReading(clock, s), uo |-> UDen - 1,
          ud |-> UDen - 1, us |-> UDen - 1, mi |-> 2]

\* random.randint(0, self.num_groups - 1) of the b-th invocation after
\* random.seed(seed)
SeededGroup(self, seed, b) == (seed + b) % self.num_groups

\* the spans of one generate_traces call, with the draws of a seeded stream:
\* span s of the list
RECURSIVE SeededCursor(_, _, _, _, _)
SeededRootStart(self, seed, clock, b) ==
    DtAdd(ClockReading(clock, 0),
          StartOffset(SeededDraws(seed, b * (1 + Len(FirstProxy(self).connections)) + 1,
                                  clock).uo))

SeededDuration(self, seed, clock, b, j) ==
    LET proxy_service == FirstProxy(self)
        s == b * (1 + Len(proxy_service.connections)) + 1 + j
        type == IF j = 0 THEN "proxy"
                ELSE Lookup(self, proxy_service.connections[j]).service_type
    IN  GenerateDuration(self, type, SeededGroup(self, seed, b),
                         SeededDraws(seed, s, clock).ud)

\* current_time when the j-th connection of invocation b is reached
SeededCursor(self, seed, clock, b, j) ==
    IF j = 1
    THEN InitialCursor(SeededRootStart(self, seed, clock, b),
                       SeededDuration(self, seed, clock, b, 0))
    ELSE AdvanceCursor(SeededCursor(self, seed, clock, b, j - 1),
                       SeededDuration(self, seed, clock, b, j - 1))

SeededRootId(self, seed, clock, b) ==
    LET d == SeededDraws(seed, b * (1 + Len(FirstProxy(self).connections)) + 1, clock)
    IN  GenerateTraceId(d.rnd, d.now)

SeededSpan(self, seed, clock, s) ==
    LET proxy_service == FirstProxy(self)
        k == Len(proxy_service.connections)
        b == (s - 1) \div (1 + k)
        j == (s - 1) % (1 + k)
        d == SeededDraws(seed, s, clock)
        grp == SeededGroup(self, seed, b)
        service == IF j = 0 THEN proxy_service
                   ELSE Lookup(self, proxy_service.connections[j])
        start_time == IF j = 0 THEN SeededRootStart(self, seed, clock, b)
                      ELSE SeededCursor(self, seed, clock, b, j)
    IN  Trace(GenerateTraceId(d.rnd, d.now), service.name, service.service_type,
              start_time,
              SpanEnd(start_time, SeededDuration(self, seed, clock, b, j)),
              GenerateStatus(self, grp, d.us),
              IF j = 0 THEN None ELSE SeededRootId(self, seed, clock, b),
              GenerateMetadata(service.service_type, d.mi))

\* generate_dataset(services, num_traces, randomization_level, num_groups,
\* seed) run at the clock reading clock: what it returns, or the error
GenerateDatasetResult(services, num_traces, rl, ng, seed, clock) ==
    LET dict == ServicesDict(services)
        self == [services |-> dict, randomization_level |-> ClampLevel(rl),
                 num_groups |-> ClampGroups(ng)]
    IN  IF ~ValidateConnections(dict) THEN <<"ValueError">>
        ELSE IF num_traces = 0 THEN <<"traces", <<>>>>
        ELSE IF ~HasProxy(self) THEN <<"StopIteration">>
        ELSE <<"traces",
               [s \in 1 .. num_traces * (1 + Len(FirstProxy(self).connections)) |->
                   SeededSpan(self, seed, clock, s)]>>

\* the first run
GenerateDataset(services, num_traces, rl, ng, seed, clock) ==
    /\ pc = "new"
    /\ pc' = "once"
    /\ call' = <<"generate_dataset", services, num_traces, rl, ng, seed>>
    /\ LET result == GenerateDatasetResult(services, num_traces, rl, ng, seed, clock)
       IN  IF result[1] = "traces"
           THEN err' = "" /\ ret' = <<"dataset", result[2]>>
           ELSE err' = result[1] /\ ret' = <<"none">>
    /\ UNCHANGED <<gen, traces, base_time, remaining, group, trace_id,
                   current_time, conn_idx, topo>>

\* the second run, with the arguments and the seed of the first, at a clock
\* reading of its own
GenerateDatasetAgain(clock) ==
    /\ pc = "once"
    /\ pc' = "done"
    /\ LET result == GenerateDatasetResult(call[2], call[3], call[4], call[5],
                                           call[6], clock)
       IN  IF result[1] = "traces"
           THEN err' = "" /\ ret' = <<"datasets", ret[2], result[2]>>
           ELSE err' = result[1] /\ ret' = <<"none">>
    /\ UNCHANGED <<gen, call, traces, base_time, remaining, group, trace_id,
                   current_time, conn_idx, topo>>

DatasetServiceLists == {SimpleServices, FanOutServices, NoProxyServices}

NextDataset ==
    \/ \E services \in DatasetServiceLists, n \in 0 .. MaxTraces, rl \in 0 .. RDen,
          ng \in 1 .. MaxGroups, seed \in DatasetSeeds, clock \in ClockStarts :
          GenerateDataset(services, n, rl, ng, seed, clock)
    \/ \E clock \in ClockStarts : GenerateDatasetAgain(clock)

SpecDataset == Init /\ [][NextDataset]_vars

---------------------------------------------------------------------------
(* Claims *)

\* some declaration of the list names a connection that no declaration of
\* the list has as its name
Dangling(decls) ==
    \E i \in 1 .. Len(decls) : \E c \in 1 .. Len(decls[i].connections) :
        decls[i].connections[c] \notin Names(decls)

DistinctNames(decls) ==
    \A i \in 1 .. Len(decls) : \A j \in 1 .. Len(decls) :
        i # j => decls[i].name # decls[j].name

\* C1: constructing a TraceGenerator from a list of declarations raises an
\* error and yields no generator whenever some declared service lists a
\* connection name that no declared service has; it succeeds when every
\* connection name resolves.
C1_DanglingIffRejected ==
    call[1] = "TraceGenerator" =>
        IF Dangling(call[2])
        THEN err = "ValueError" /\ gen = NoGen /\ pc = "failed"
        ELSE err = "" /\ gen # NoGen /\ pc = "ready"

\* C1, for lists whose names are pairwise distinct: the statement of C1
C1_DistinctNamesDanglingIffRejected ==
    (call[1] = "TraceGenerator" /\ DistinctNames(call[2])) =>
        IF Dangling(call[2])
        THEN err = "ValueError" /\ gen = NoGen /\ pc = "failed"
        ELSE err = "" /\ gen # NoGen /\ pc = "ready"

\* the spans a state holds: of the list generate_traces is building, of the
\* list it returned, and the one _create_trace returned
SpanOK(P(_)) ==
    /\ \A i \in 1 .. Len(traces) : P(traces[i])
    /\ ret[1] = "traces" => \A i \in 1 .. Len(ret[2]) : P(ret[2][i])
    /\ ret[1] = "trace" => P(ret[2])

EndNotBeforeStart(span) == DtLeq(span.start_time, span.end_time)

\* C6: every span of generate_traces and of _create_trace has
\* end_time >= start_time.
C6_EndNotBeforeStart == SpanOK(EndNotBeforeStart)

\* generate_traces returned, at randomization level 1, a root span that
\* starts at base_time and lasts 0.05 s = 0.1 * 1 * (1 - 0.5), the least
\* duration of a proxy
C6_Witness ==
    /\ ret[1] = "traces"
    /\ Len(ret[2]) >= 2
    /\ gen.randomization_level = RDen
    /\ \E i \in 1 .. Len(ret[2]) :
          /\ ret[2][i].service_type = "proxy"
          /\ ret[2][i].end_time = DtAdd(ret[2][i].start_time, <<0, 50000>>)

\* the spans of a list of generate_traces lie root, child 1, ..., child k,
\* root, ...: a child starts when the span before it ends, and the children
\* follow the connections of the entry point in order
Sequential(l) ==
    LET conns == FirstProxy(gen).connections
        k == Len(conns)
    IN  \A p \in 1 .. Len(l) :
            LET j == (p - 1) % (k + 1)
            IN  j > 0 => /\ l[p].start_time = l[p - 1].end_time
                         /\ DtLeq(l[p - 1].end_time, l[p].start_time)
                         /\ l[p].service_name = conns[j]
                         /\ l[p].parent_trace_id # None

\* C7: within one invocation of generate_traces the first child starts at
\* the root's end_time and each later child at the end_time of the sibling
\* before it, in the order of the entry point's connections.
C7_SiblingsSequential ==
    /\ pc \in {"loop", "children"} /\ HasProxy(gen) => Sequential(traces)
    /\ ret[1] = "traces" /\ HasProxy(gen) => Sequential(ret[2])

\* generate_traces(2) returned six spans for a proxy with two connections,
\* and the second child of the first invocation starts after the first one
C7_Witness ==
    /\ ret[1] = "traces"
    /\ Len(ret[2]) = 6
    /\ Len(FirstProxy(gen).connections) = 2
    /\ ret[2][3].start_time = ret[2][2].end_time
    /\ ~DtLeq(ret[2][3].start_time, ret[2][2].start_time)

StatusAndTypeOK(span) ==
    span.status \in StatusValues /\ span.service_type \in ServiceTypes

\* C8: every span has status in {success, error} and service_type in
\* {proxy, web, database}; _create_trace called with any other service_type
\* produces no span.
C8_StatusAndType ==
    /\ SpanOK(StatusAndTypeOK)
    /\ (call[1] = "_create_trace" /\ call[4] \notin ServiceTypes) => ret = <<"none">>

\* generate_traces returned a list with both statuses and two service types
C8_Witness ==
    /\ ret[1] = "traces"
    /\ \E i \in 1 .. Len(ret[2]) : \E j \in 1 .. Len(ret[2]) :
          /\ ret[2][i].status = "success"
          /\ ret[2][j].status = "error"
          /\ ret[2][i].service_type # ret[2][j].service_type

\* a < b for fractions with positive denominators
FracLess(a, b) == a[1] * b[2] < b[1] * a[2]

ResultConnections(result) ==
    [n \in Names(result) |->
        (result[CHOOSE i \in 1 .. Len(result) : result[i].name = n]).connections]

CountOfType(result, service_type) ==
    Cardinality({i \in 1 .. Len(result) : result[i].service_type = service_type})

C3_ConnectionsResolve ==
    topo.phase = "returned" =>
        /\ ~Dangling(topo.result)
        /\ ValidateConnections(ServicesDict(topo.result))

\* a returned topology in which a web service calls a web service and a
\* database
C3_Witness ==
    /\ topo.phase = "returned"
    /\ \E i \in 1 .. Len(topo.result) :
          /\ topo.result[i].service_type = "web"
          /\ \E c \in 1 .. Len(topo.result[i].connections) :
                topo.result[i].connections[c][1] = "service"
          /\ \E c \in 1 .. Len(topo.result[i].connections) :
                topo.result[i].connections[c][1] = "db"

\* C4: generate_random_topology(num_services=5, max_depth=2) with the other
\* parameters at their defaults returns no service whose longest forward
\* path, by find_longest_path on the returned edges, exceeds 2.
C4_DefaultsDepthBound ==
    topo.phase = "returned" =>
        \A n \in Names(topo.result) :
            FindLongestPath(ResultConnections(topo.result), n, {}) <= 2

\* C5: num_services < 3 or max_depth < 2 raises ValueError before any work:
\* nothing is returned, no draw is made, no name and no edge is built; a
\* call that gets further has num_services >= 3 and max_depth >= 2.
C5_RejectedBeforeWork ==
    /\ topo.phase \notin {"idle", "raised"} =>
          topo.num_services >= 3 /\ topo.max_depth >= 2
    /\ (/\ topo.phase = "raised"
        /\ (topo.args.num_services < 3 \/ topo.args.max_depth < 2)) =>
          /\ topo.err = "ValueError"
          /\ ~topo.drew
          /\ topo.names = <<>>
          /\ topo.connections = <<>>
          /\ topo.result = <<>>

\* a call with enough services and too small a max_depth has raised, after
\* random.seed(seed)
C5_Witness ==
    /\ topo.phase = "raised"
    /\ topo.args.num_services >= 3
    /\ topo.args.max_depth < 2
    /\ topo.seeded
    /\ ~topo.drew


\* the position of a span in a list
PositionOf(l, span) == CHOOSE i \in 1 .. Len(l) : l[i] = span

\* C11 as stated: extract_trace_hierarchy on R, A, B, C with root id R
\* returns R, A, C, B for every order of the input list.
C11_HierarchyOrderFixed ==
    (/\ call[1] = "extract_trace_hierarchy"
     /\ call[2] \in FamilyLists
     /\ call[3] = <<"R">>) =>
        ret = <<"traces", <<SpanR, SpanA, SpanC, SpanB>>, "">>

\* C11, amended: the result is R followed by the subtrees of A and of B in
\* the order A and B have in the input list: R, A, C, B when A comes before
\* B, and R, B, A, C when B comes before A.
C11_HierarchyFollowsInputOrder ==
    (/\ call[1] = "extract_trace_hierarchy"
     /\ call[2] \in FamilyLists
     /\ call[3] = <<"R">>) =>
        IF PositionOf(call[2], SpanA) < PositionOf(call[2], SpanB)
        THEN ret = <<"traces", <<SpanR, SpanA, SpanC, SpanB>>, "">>
        ELSE ret = <<"traces", <<SpanR, SpanB, SpanA, SpanC>>, "">>

\* the hierarchy of R was extracted from a list that has B before A and C
\* before R
C11_Witness ==
    /\ call[1] = "extract_trace_hierarchy"
    /\ call[2] \in FamilyLists
    /\ call[3] = <<"R">>
    /\ PositionOf(call[2], SpanB) < PositionOf(call[2], SpanA)
    /\ PositionOf(call[2], SpanC) < PositionOf(call[2], SpanR)
    /\ ret[1] = "traces"

\* C12: with a root id that no span of the list has, extract_trace_hierarchy
\* returns the empty list and raises nothing, whatever the list.
C12_UnknownRootGivesEmpty ==
    (/\ call[1] = "extract_trace_hierarchy"
     /\ \A i \in 1 .. Len(call[2]) : call[2][i].trace_id # call[3]) =>
        /\ err = ""
        /\ ret[1] = "traces"
        /\ ret[2] = <<>>

\* an unknown root id was looked up in a list whose parent links form a cycle
C12_Witness ==
    /\ call[1] = "extract_trace_hierarchy"
    /\ call[3] = <<"X">>
    /\ Len(call[2]) >= 2
    /\ \E i \in 1 .. Len(call[2]) : \E j \in 1 .. Len(call[2]) :
          /\ call[2][i].parent_trace_id = call[2][j].trace_id
          /\ call[2][j].parent_trace_id = call[2][i].trace_id
          /\ i # j
    /\ ret = <<"traces", <<>>, "Warning">>


HasParentPos(out, k) ==
    \E p \in 1 .. (k - 1) : out[p].trace_id = out[k].parent_trace_id

ParentPos(out, k) ==
    CHOOSE p \in 1 .. (k - 1) :
        /\ out[p].trace_id = out[k].parent_trace_id
        /\ \A q \in (p + 1) .. (k - 1) : out[q].trace_id # out[k].parent_trace_id

\* the spans of a grouped list that hang directly under position p, in order
DirectChildren(out, p) ==
    LET idx == [i \in 1 .. Len(out) |-> i]
        sel == SelectSeq(idx, LAMBDA m : /\ m > p
                                         /\ out[m].parent_trace_id # None
                                         /\ HasParentPos(out, m)
                                         /\ ParentPos(out, m) = p)
    IN  [i \in 1 .. Len(sel) |-> out[sel[i]]]

\* a list is grouped by root, in preorder, for an input list: its roots are
\* the input's roots in input order; every other span hangs under an earlier
\* span with no root and no span of another subtree in between; under every
\* span come exactly the input's spans naming it as parent, in input order
GroupedByRoot(out, input) ==
    /\ RootTraces(out) = RootTraces(input)
    /\ \A k \in 1 .. Len(out) :
          out[k].parent_trace_id # None =>
              /\ HasParentPos(out, k)
              /\ \A m \in (ParentPos(out, k) + 1) .. (k - 1) :
                    /\ out[m].parent_trace_id # None
                    /\ ParentPos(out, m) >= ParentPos(out, k)
    /\ \A p \in 1 .. Len(out) :
          DirectChildren(out, p) = ChildMap(input, out[p].trace_id)

RECURSIVE AncestorIds(_, _, _)
AncestorIds(out, ids, n) ==
    IF n = 0 THEN ids
    ELSE AncestorIds(out,
                     ids \cup {out[j].parent_trace_id :
                                  j \in {i \in 1 .. Len(out) :
                                            /\ out[i].trace_id \in ids
                                            /\ out[i].parent_trace_id # None}},
                     n - 1)

\* the parent relation of a list is a well-formed forest: a parent id is the
\* id of a span of the list, every span with that id is a root, the nearest
\* root before the child is one of them, and no span is its own ancestor
WellFormedForest(out) ==
    \A i \in 1 .. Len(out) :
        out[i].parent_trace_id # None =>
            /\ \E j \in 1 .. Len(out) : out[j].trace_id = out[i].parent_trace_id
            /\ \A j \in 1 .. Len(out) :
                  out[j].trace_id = out[i].parent_trace_id =>
                      out[j].parent_trace_id = None
            /\ \E j \in 1 .. (i - 1) :
                  /\ out[j].parent_trace_id = None
                  /\ out[j].trace_id = out[i].parent_trace_id
                  /\ \A q \in (j + 1) .. (i - 1) : out[q].parent_trace_id # None
            /\ out[i].trace_id \notin AncestorIds(out, {out[i].parent_trace_id}, Len(out))

DistinctIds(out) ==
    \A i \in 1 .. Len(out) : \A j \in 1 .. Len(out) :
        i # j => out[i].trace_id # out[j].trace_id

\* C15: in every list generate_traces returns the parent relation is a
\* well-formed forest: a non-null parent id is the id of a span of the list,
\* the root of the same invocation; the span it names is a root; there is
\* no cycle.
C15_ForestWellFormed ==
    (call[1] = "generate_traces" /\ ret[1] = "traces") => WellFormedForest(ret[2])

\* C15, for the returned lists whose ids are pairwise distinct
C15_DistinctIdsForestWellFormed ==
    (call[1] = "generate_traces" /\ ret[1] = "traces" /\ DistinctIds(ret[2])) =>
        WellFormedForest(ret[2])

\* C16: the spans one generate_traces call returns have pairwise distinct
\* trace_ids, whatever the draws and the clock readings.
C16_DistinctTraceIds ==
    (call[1] = "generate_traces" /\ ret[1] = "traces") => DistinctIds(ret[2])


\* what of a span does not come from the clock: the service, the status, the
\* metadata, the length of the span, and whether it has a parent
ClockFree(out) ==
    [i \in 1 .. Len(out) |->
        <<out[i].service_name, out[i].service_type, out[i].status, out[i].metadata,
          out[i].parent_trace_id = None>>]

\* C17: two runs of generate_dataset with the same arguments and the same
\* seed return identical span lists, whenever each run is executed.
C17_SeededRunsIdentical ==
    ret[1] = "datasets" => ret[2] = ret[3]

\* C17, for what does not come from the clock: the two runs agree on the
\* number of spans and on every span's service, status and metadata
C17_SeededRunsAgreeUpToClock ==
    ret[1] = "datasets" => ClockFree(ret[2]) = ClockFree(ret[3])


\* base(service_type) * (1 + g / (2 * num_groups)) seconds, as a fraction:
\* the duration of a span of group g when randomization_level is 0
UnrandomizedDuration(service_type, g, ng) ==
    << (CASE service_type = "proxy" -> 1
          [] service_type = "web" -> 3
          [] service_type = "database" -> 2) * (2 * ng + g),
       20 * ng >>

\* a span lasts what a span of its type and of group g lasts
LastsAsGroup(span, g, ng) ==
    span.end_time = DtAdd(span.start_time,
                          Timedelta(UnrandomizedDuration(span.service_type, g, ng)[1],
                                    UnrandomizedDuration(span.service_type, g, ng)[2]))

\* C18: the group of an invocation is drawn once, lies in [0, num_groups),
\* and is the one the root span and every child span of the invocation are
\* generated with: with randomization_level = 0, while an invocation runs
\* every span it has emitted lasts base(service_type) times the factor of
\* the group drawn, and in a returned list every root and its children last
\* base(service_type) times the factor of one common group.
C18_OneGroupPerInvocation ==
    /\ pc = "children" =>
          /\ group \in 0 .. (gen.num_groups - 1)
          /\ gen.randomization_level = 0 =>
                \A i \in (Len(traces) - conn_idx + 1) .. Len(traces) :
                    LastsAsGroup(traces[i], group, gen.num_groups)
    /\ (/\ call[1] = "generate_traces" /\ ret[1] = "traces" /\ HasProxy(gen)
        /\ gen.randomization_level = 0) =>
          LET k == Len(FirstProxy(gen).connections)
          IN  \A b \in 0 .. (call[2] - 1) :
                  \E g \in 0 .. (gen.num_groups - 1) :
                      \A j \in 1 .. (1 + k) :
                          LastsAsGroup(ret[2][b * (1 + k) + j], g, gen.num_groups)

\* with randomization_level = 0 and two groups, a list was returned whose
\* root and two children were generated with the second group
C18_Witness ==
    /\ call[1] = "generate_traces"
    /\ ret[1] = "traces"
    /\ gen.randomization_level = 0
    /\ gen.num_groups = 2
    /\ Len(ret[2]) >= 3
    /\ \A j \in 1 .. 3 : LastsAsGroup(ret[2][j], 1, 2)
    /\ ret[2][3].parent_trace_id = ret[2][1].trace_id


\* C19: with max_width >= 0 no service has more than max_width outgoing
\* connections: not once wired, not during or after depth bounding, not
\* during or after the variability step, not in the returned list.
C19_WidthCap ==
    (topo.phase \notin {"idle", "raised"} /\ topo.max_width >= 0) =>
        /\ \A n \in DOMAIN topo.connections :
              Len(topo.connections[n]) <= topo.max_width
        /\ \A i \in 1 .. Len(topo.result) :
              Len(topo.result[i].connections) <= topo.max_width

\* a topology with max_width = 1 came back from the variability step with a
\* web service at the cap and a proxy at the cap
C19_Witness ==
    /\ topo.phase = "returned"
    /\ topo.max_width = 1
    /\ topo.variability > 0
    /\ \E i \in 1 .. Len(topo.result) :
          /\ topo.result[i].service_type = "web"
          /\ Len(topo.result[i].connections) = 1
    /\ \E i \in 1 .. Len(topo.result) :
          /\ topo.result[i].service_type = "proxy"
          /\ Len(topo.result[i].connections) = 1


\* the type discipline on one service of a returned list
TypeDiscipline(result, i) ==
    LET service == result[i]
        typeOf(name) == (result[CHOOSE j \in 1 .. Len(result) :
                                    result[j].name = name]).service_type
    IN  /\ service.service_type = "database" => service.connections = <<>>
        /\ service.service_type = "proxy" =>
              \A c \in 1 .. Len(service.connections) :
                  typeOf(service.connections[c]) = "web"
        /\ service.service_type = "web" =>
              \A c \in 1 .. Len(service.connections) :
                  /\ typeOf(service.connections[c]) \in {"web", "database"}
                  /\ service.connections[c] # service.name
        /\ \A c \in 1 .. Len(service.connections) :
              \A e \in 1 .. Len(service.connections) :
                  c # e => service.connections[c] # service.connections[e]

\* C20: in every returned topology a database has no outgoing connection, a
\* proxy's targets are web services, a web service's targets are other web
\* services or databases, and no service lists a target twice.
C20_TypeDiscipline ==
    topo.phase = "returned" =>
        \A i \in 1 .. Len(topo.result) : TypeDiscipline(topo.result, i)

\* a returned topology, after the variability step, in which the second web
\* service calls the first
C20_Witness ==
    /\ topo.phase = "returned"
    /\ topo.variability > 0
    /\ \E i \in 1 .. Len(topo.result) :
          /\ topo.result[i].name = <<"service", 2>>
          /\ \E c \in 1 .. Len(topo.result[i].connections) :
                topo.result[i].connections[c] = <<"service", 1>>


\* the targets of a name in a connection map (none while it has no entry)
TargetsOf(connections, name) ==
    IF name \in DOMAIN connections THEN Range(connections[name]) ELSE {}

\* the names reached from a set of names in at most n further steps
RECURSIVE ReachedFrom(_, _, _)
ReachedFrom(connections, names, n) ==
    IF n = 0 THEN names
    ELSE ReachedFrom(connections,
                     names \cup UNION {TargetsOf(connections, x) : x \in names},
                     n - 1)

\* no name of the map is reached from its own targets
Acyclic(connections) ==
    \A name \in DOMAIN connections :
        name \notin ReachedFrom(connections, TargetsOf(connections, name),
                                Cardinality(DOMAIN connections))

\* the connection map of a returned list
ResultMap(result) ==
    [name \in {result[i].name : i \in 1 .. Len(result)} |->
        (result[CHOOSE i \in 1 .. Len(result) : result[i].name = name]).connections]

\* C21: during initial wiring and depth bounding every web-to-web edge goes
\* from a web service to a later-indexed one and the connection map is
\* acyclic; with variability = 0 the returned topology is acyclic.
C21_AcyclicWithoutVariability ==
    /\ topo.phase \in {"wire_proxy", "wire_web", "wire_db", "prune"} =>
          /\ Acyclic(topo.connections)
          /\ \A i \in 1 .. Len(topo.web_names) :
                \A target \in TargetsOf(topo.connections, topo.web_names[i]) :
                    target[1] = "service" => target[2] > i
    /\ (topo.phase \in {"emit", "returned"} /\ topo.variability = 0) =>
          /\ Acyclic(topo.connections)
          /\ Acyclic(ResultMap(topo.result))

\* a topology returned with variability = 0 in which the first web service
\* calls the second, after pruning passes ran
C21_Witness ==
    /\ topo.phase = "returned"
    /\ topo.variability = 0
    /\ topo.max_depth < PassCap
    /\ \E i \in 1 .. Len(topo.result) :
          /\ topo.result[i].name = <<"service", 1>>
          /\ <<"service", 2>> \in Range(topo.result[i].connections)


\* C22: a step of a pruning pass handles one service, each service once per
\* pass; it leaves the other services' edges alone, removes at most one edge
\* of the service and only when the service's longest forward path at that
\* moment exceeds max_depth, adds none, and no service's longest forward path
\* grows.
C22_PruningOnlyRemoves ==
    [][topo.phase = "prune" =>
          LET service == topo.all_services[topo.idx]
              before == topo.connections
              after == topo'.connections
          IN  /\ \A i \in 1 .. Len(topo.all_services) :
                    i # topo.idx => topo.all_services[i] # service
              /\ \A name \in DOMAIN before :
                    name # service => after[name] = before[name]
              /\ \/ after[service] = before[service]
                 \/ /\ FindLongestPath(before, service, {}) > topo.max_depth
                    /\ \E i \in 1 .. Len(before[service]) :
                          after[service] = RemoveAt(before[service], i)
              /\ \A name \in DOMAIN before :
                    FindLongestPath(after, name, {}) <= FindLongestPath(before, name, {})
              /\ topo'.phase = "prune" =>
                    \/ topo'.pass = topo.pass /\ topo'.idx = topo.idx + 1
                    \/ topo'.pass = topo.pass + 1 /\ topo'.idx = 1
    ]_vars

\* a later pruning pass in which the proxy, wired to a web service, has lost
\* its edge while a web service still has one
C22_Witness ==
    /\ topo.phase = "prune"
    /\ topo.pass > topo.max_depth
    /\ topo.max_width >= 1
    /\ topo.connections[<<"proxy", 1>>] = <<>>
    /\ \E i \in 1 .. Len(topo.web_names) : topo.connections[topo.web_names[i]] # <<>>


\* the simple forward paths of k + 1 services that start at a service: a
\* path is extended by a target of its last service that is not on it yet
RECURSIVE SimplePaths(_, _, _)
SimplePaths(connections, start_service, k) ==
    IF k = 0 THEN {<<start_service>>}
    ELSE UNION {{Append(path, target) :
                    target \in Range(connections[path[Len(path)]]) \ Range(path)} :
                path \in SimplePaths(connections, start_service, k - 1)}

\* the number of services on the longest simple forward path from a service
LongestSimplePath(connections, start_service) ==
    CHOOSE n \in 1 .. Cardinality(DOMAIN connections) :
        /\ SimplePaths(connections, start_service, n - 1) # {}
        /\ SimplePaths(connections, start_service, n) = {}

\* C23: find_longest_path returns, for every connection map (cycles and
\* self-loops included) and every start service, the number of services on
\* the longest simple forward path from the start service; 1 when the
\* service has no connections.
C23_LongestSimplePath ==
    call[1] = "find_longest_path" =>
        /\ pc = "done"
        /\ err = ""
        /\ ret = <<"length", LongestSimplePath(call[2], call[3])>>
        /\ call[2][call[3]] = <<>> => ret[2] = 1

\* the longest path was computed from a service that calls itself and lies
\* on a cycle through all three services
C23_Witness ==
    /\ call[1] = "find_longest_path"
    /\ call[3] = <<"service", 1>>
    /\ call[2][<<"service", 1>>] = <<<<"service", 1>>, <<"service", 2>>>>
    /\ call[2][<<"service", 2>>] = <<<<"service", 3>>>>
    /\ call[2][<<"service", 3>>] = <<<<"service", 1>>>>
    /\ ret = <<"length", 3>>


\* the depth of the span at position k of a grouped list: 0 for a root, one
\* more than the depth of the span it hangs under otherwise
RECURSIVE DepthAt(_, _)
DepthAt(out, k) ==
    IF out[k].parent_trace_id = None THEN 0
    ELSE 1 + DepthAt(out, ParentPos(out, k))

\* C24: in the rows save_to_csv writes, hierarchy_level is the span's depth
\* in the parent forest: 0 for a root, the parent's level + 1 otherwise.
C24_LevelIsDepth ==
    (call[1] = "save_to_csv" /\ ret[1] = "grouped") =>
        \A k \in 1 .. Len(ret[2]) : ret[3][k] = DepthAt(ret[2], k)

\* C24, for the lists whose ids are pairwise distinct
C24_DistinctIdsLevelIsDepth ==
    (call[1] = "save_to_csv" /\ ret[1] = "grouped" /\ DistinctIds(call[2])) =>
        \A k \in 1 .. Len(ret[2]) : ret[3][k] = DepthAt(ret[2], k)

\* save_to_csv wrote R, A, C, B with levels 0, 1, 2, 1 for a list that has C
\* before A
C24_Witness ==
    /\ call[1] = "save_to_csv"
    /\ call[2] \in FamilyLists
    /\ PositionOf(call[2], SpanC) < PositionOf(call[2], SpanA)
    /\ ret = <<"grouped", <<SpanR, SpanA, SpanC, SpanB>>, <<0, 1, 2, 1>>>>


\* C25: a step of the variability loop handles one service; it leaves the
\* other services' edges alone, appends at most one edge and then removes at
\* most one, so the number of edges changes by -1, 0 or +1; a database keeps
\* no edges.  With variability = 0 the loop is never entered and the returned
\* lists are the ones depth bounding left.
C25_VariabilityFrame ==
    [][/\ topo.phase = "vary" =>
             LET service == topo.all_services[topo.idx]
                 before == topo.connections
                 after == topo'.connections
                 appended == {before[service]}
                                 \cup {Append(before[service], target) :
                                          target \in DOMAIN before}
             IN  /\ topo.variability > 0
                 /\ \A i \in 1 .. Len(topo.all_services) :
                       i # topo.idx => topo.all_services[i] # service
                 /\ \A name \in DOMAIN before :
                       name # service => after[name] = before[name]
                 /\ \E added \in appended :
                       \/ after[service] = added
                       \/ \E i \in 1 .. Len(added) : after[service] = RemoveAt(added, i)
                 /\ Len(after[service]) - Len(before[service]) \in {-1, 0, 1}
                 /\ \A i \in 1 .. Len(topo.db_names) :
                       /\ before[topo.db_names[i]] = <<>>
                       /\ after[topo.db_names[i]] = <<>>
       /\ (topo.phase = "prune" /\ topo'.phase # "prune" /\ topo.variability = 0) =>
             topo'.phase = "emit"
       /\ (topo.phase = "emit" /\ topo.variability = 0) =>
             \A i \in 1 .. Len(topo'.result) :
                 topo'.result[i].connections = topo.connections[topo'.result[i].name]
    ]_vars

\* a topology returned without a pruning pass in which the variability step
\* took one of the proxy's two edges and made the second web service call
\* the first
C25_Witness ==
    /\ topo.phase = "returned"
    /\ topo.variability > 0
    /\ topo.max_depth >= PassCap
    /\ topo.max_width = 2
    /\ Len(topo.web_names) = 2
    /\ \E i \in 1 .. Len(topo.result) :
          /\ topo.result[i].service_type = "proxy"
          /\ Len(topo.result[i].connections) = 1
    /\ \E i \in 1 .. Len(topo.result) :
          /\ topo.result[i].name = <<"service", 2>>
          /\ <<"service", 1>> \in Range(topo.result[i].connections)


\* C26: the constructor stores min(1, max(0, randomization_level)) and
\* max(1, num_groups); so the stored level lies in [0, 1], the stored number
\* of groups is at least 1, every group drawn lies in [0, num_groups), and
\* the divisions by num_groups in the duration and the success rate have a
\* nonzero divisor.
C26_ClampedInputs ==
    /\ (call[1] = "TraceGenerator" /\ pc = "ready") =>
          /\ gen.randomization_level = Min(RDen, Max(0, call[3]))
          /\ gen.num_groups = Max(1, call[4])
    /\ pc \notin {"new", "failed"} =>
          /\ gen.randomization_level \in 0 .. RDen
          /\ gen.num_groups >= 1
          /\ group \in 0 .. (gen.num_groups - 1)
          /\ \A g \in 0 .. (gen.num_groups - 1) :
                /\ GenerateDuration(gen, "proxy", g, 0)[2] # 0
                /\ SuccessRate(gen, g)[2] # 0

\* a generator built with randomization_level = 3 and num_groups = -1 holds
\* level 1 and one group
C26_Witness ==
    /\ pc = "ready"
    /\ call[1] = "TraceGenerator"
    /\ call[3] = 3 * RDen
    /\ call[4] = 0 - 1
    /\ gen.randomization_level = RDen
    /\ gen.num_groups = 1


\* C27: the pruning loop runs the same number of passes whatever
\* max_depth >= 2 is given, and at least one pass when, after initial wiring,
\* the longest forward path of some service exceeds max_depth.
C27_PassesIndependentOfDepth ==
    /\ (topo.phase \in {"vary", "emit", "returned"} /\ topo.max_depth >= 2) =>
          \A other \in DepthArgs :
              other >= 2 => topo.passes = Cardinality(PassRange(other))
    /\ (/\ topo.phase \in {"vary", "emit"}
        /\ topo.phase = "vary" => topo.idx = 1
        /\ topo.phase = "emit" => topo.variability = 0
        /\ topo.passes = 0) =>
          \A name \in DOMAIN topo.connections :
              FindLongestPath(topo.connections, name, {}) <= topo.max_depth

\* C27, as the loop header has it: 10 - max_depth passes, none from
\* max_depth = 10 on
C27_PassesFollowDepth ==
    topo.phase \in {"vary", "emit", "returned"} =>
        topo.passes = Max(0, PassCap - topo.max_depth)


\* the ids reached from a set of ids by following parent links downwards,
\* n times
RECURSIVE DescendantIds(_, _, _)
DescendantIds(trs, ids, n) ==
    IF n = 0 THEN ids
    ELSE DescendantIds(trs,
                       ids \cup {trs[i].trace_id :
                                    i \in {j \in 1 .. Len(trs) :
                                              trs[j].parent_trace_id \in ids}},
                       n - 1)

\* a list holds the root and every span reached from it through parent
\* links, each once, and no other span
HoldsHierarchy(out, trs, root_trace_id) ==
    LET reached == IF root_trace_id \in TraceMapKeys(trs)
                   THEN DescendantIds(trs, {root_trace_id}, Len(trs))
                   ELSE {}
    IN  /\ DistinctIds(out)
        /\ Range(out) = {trs[i] : i \in {j \in 1 .. Len(trs) : trs[j].trace_id \in reached}}

\* C28: extract_trace_hierarchy returns for every span list and root id, a
\* list with a span that is its own parent or with a longer parent cycle
\* included; when the trace_ids are unique the result holds the root and
\* every span reached from it through parent links exactly once, and no
\* other span.
C28_TerminatesWithHierarchy ==
    call[1] = "extract_trace_hierarchy" =>
        /\ err = ""
        /\ ret[1] = "traces"
        /\ DistinctIds(call[2]) => HoldsHierarchy(ret[2], call[2], call[3])

\* C28, for the calls that return, on lists with unique ids in which no span
\* names the empty string as its parent
C28_ReturnedHierarchy ==
    (/\ call[1] = "extract_trace_hierarchy"
     /\ err = ""
     /\ DistinctIds(call[2])
     /\ \A i \in 1 .. Len(call[2]) : call[2][i].parent_trace_id # <<"">>) =>
        HoldsHierarchy(ret[2], call[2], call[3])


\* a span list with unique ids in which every non-null parent id is the id
\* of a span of the list and no span is its own ancestor
ResolvedForest(trs) ==
    /\ DistinctIds(trs)
    /\ \A i \in 1 .. Len(trs) :
          trs[i].parent_trace_id # None =>
              /\ trs[i].parent_trace_id \in TraceMapKeys(trs)
              /\ trs[i].trace_id \notin AncestorIds(trs, {trs[i].parent_trace_id}, Len(trs))

\* C29: for a span list with unique ids, resolved parents and no parent
\* cycle, the grouping pass of save_to_json and save_to_csv emits every input
\* span exactly once and nothing else, and regrouping the grouped list
\* returns it unchanged.
C29_GroupingPermutes ==
    (call[1] \in SaveFunctions /\ ResolvedForest(call[2])) =>
        /\ err = ""
        /\ ret[1] = "grouped"
        /\ Len(ret[2]) = Len(call[2])
        /\ Range(ret[2]) = Range(call[2])
        /\ pc = "regrouped" => ret[2] = call[2]

\* C29, for the lists in which no span names the empty string as its parent
C29_TruthyParentsGroupingPermutes ==
    (/\ call[1] \in SaveFunctions
     /\ ResolvedForest(call[2])
     /\ \A i \in 1 .. Len(call[2]) : call[2][i].parent_trace_id # <<"">>) =>
        /\ err = ""
        /\ ret[1] = "grouped"
        /\ Len(ret[2]) = Len(call[2])
        /\ Range(ret[2]) = Range(call[2])
        /\ pc = "regrouped" => ret[2] = call[2]


\* no declared service of a generator is a proxy
NoProxyDeclared(self) ==
    \A i \in 1 .. Len(self.services) : self.services[i].service_type # "proxy"

\* C30: on a generator without a proxy, generate_traces(n) with n >= 1 ends
\* in its first iteration with an error, before any span is built, and
\* returns nothing; generate_traces(0) returns the empty list on every
\* generator; no step of generate_traces changes the generator's services,
\* randomization_level or num_groups.
C30_NoProxyFailsZeroReturnsEmpty ==
    [][/\ (call'[1] = "generate_traces" /\ pc' = "done"
              /\ NoProxyDeclared(gen') /\ call'[2] >= 1) =>
             /\ err' = "StopIteration"
             /\ ret' = <<"none">>
             /\ traces = <<>>
             /\ remaining = call'[2]
       /\ (call' = <<"generate_traces", 0>> /\ pc' = "done") =>
             /\ err' = ""
             /\ ret' = <<"traces", <<>>>>
       /\ call'[1] = "generate_traces" => gen' = gen
    ]_vars

\* generate_traces(MaxTraces) ended with StopIteration on the topology
\* backend -> database, which has no proxy
C30_Witness ==
    /\ pc = "done"
    /\ call = <<"generate_traces", MaxTraces>>
    /\ gen.services = ServicesDict(NoProxyServices)
    /\ err = "StopIteration"
    /\ ret = <<"none">>

=============================================================================
